---- MODULE Spec2Model ----
(***************************************************************************)
(* Note generation orchestrator of backend/app/api/routes/generate.py:     *)
(* the task registry generation_tasks, the process-wide                    *)
(* generation_semaphore and the background coroutine generate_notes_task.  *)
(* A task's position (pc) changes only where the coroutine awaits; the     *)
(* synchronous code between two awaits is one atomic step.                 *)
(***************************************************************************)
EXTENDS Integers, Sequences, FiniteSets, TLC

\* ---- bounds of the model ----
MaxTasks == 2       \* requests to POST / over a run
MaxLines == 3       \* lines of a text handed to the note formatter
MaxRuns == 2        \* format_note calls in a row on one text
MaxEntries == 2     \* cluster-id entries summed over all submitted lists

\* ---- configuration ----
\* the values MAX_CONCURRENT_GENERATIONS is configured with (default 2)
GateSizes == {1, 2}

\* ---- the cluster store (read-only here) ----
ClusterIds == {"c1", "cX"}
StoredClusters == {"c1"}
None == "None"

\* ---- the sessions and their clusters ----
\* s1 owns the stored cluster, s0 owns none
Sessions == {"s1", "s0"}
ClustersOf(session) == IF session = "s1" THEN <<"c1">> ELSE <<>>

\* ---- exceptions ----
\* what generate_note raises: a remote error, the 180 s timeout, the ValueError
\* for a response of fewer than 100 characters
GenerationErrors == {"RemoteError", "Timeout", "TooShort"}
StorageError == "StorageError"

VARIABLES
    max_concurrent,       \* settings.MAX_CONCURRENT_GENERATIONS
    sem,                  \* generation_semaphore's free slots
    generation_tasks,     \* registry: task id -> GenerationStatus
    cluster_ids,          \* per task: the cluster_ids argument
    rate_limit_enabled,   \* per task: the rate_limit_enabled argument
    pc,                   \* per task: the await the coroutine is suspended at
    idx,                  \* per task: position of the for loop in cluster_ids
    exc,                  \* per task: the exception e bound in the per-cluster except clause
    notes,                \* the notes table, in insertion order
    refused,              \* the number of requests POST / answered with 400
    markdown,             \* the text handed to the note formatter
    outputs,              \* what format_note returned, call after call, each
                          \* call taking the text the call before it returned
    report,               \* what the last validate_format call returned, if any
    prompt_options,       \* generate_note's prompt_options argument
    response,             \* what the chat completion call gives generate_note
    returned              \* what generate_note returned or raised, if called

vars == <<max_concurrent, sem, generation_tasks, cluster_ids,
          rate_limit_enabled, pc, idx, exc, notes, refused, markdown, outputs, report,
          prompt_options, response, returned>>

formatter_vars == <<markdown, outputs, report>>
generator_vars == <<prompt_options, response, returned>>

Tasks == DOMAIN generation_tasks

\* ---- values ----
\* progress is the float done / total, kept as an exact fraction
Fraction(n, d) == [num |-> n, den |-> d]
Zero == Fraction(0, 1)
LessEq(p, q) == p.num * q.den <= q.num * p.den
IsOne(p) == p.num = p.den

RECURSIVE SeqsUpTo(_)
SeqsUpTo(n) ==
    IF n = 0 THEN {<<>>}
    ELSE LET shorter == SeqsUpTo(n - 1)
         IN  shorter \cup {Append(s, c) : s \in shorter, c \in ClusterIds}

RECURSIVE TotalEntries(_)
TotalEntries(lists) ==
    IF lists = <<>> THEN 0 ELSE Len(Head(lists)) + TotalEntries(Tail(lists))

RECURSIVE WithoutCluster(_, _)
WithoutCluster(rows, c) ==
    IF rows = <<>> THEN <<>>
    ELSE IF Head(rows).cluster_id = c THEN WithoutCluster(Tail(rows), c)
         ELSE <<Head(rows)>> \o WithoutCluster(Tail(rows), c)

Note(c, content, s) == [cluster_id |-> c, markdown_content |-> content, status |-> s]
Markdown == <<"markdown">>
FailedContentNoError(e) == <<"# Generation Failed", "Error", "unknown">>
FailedContent(e) == <<"# Generation Failed", "Error", e>>

\* ---- the semaphore ----
\* asyncio.Semaphore as its counter: a slot can be taken while the counter is
\* positive; the order in which waiting tasks are woken is left open, so any
\* task at the gate may take a free slot
CanAcquireLoose(v) == v >= 0
CanAcquire(v) == v > 0
SemAcquire(v) == v - 1
SemRelease(v) == v + 1

\* ---- GenerationStatus updates ----
NewStatus ==
    [status |-> "pending", progress |-> Zero, current_cluster |-> None,
     completed_clusters |-> <<>>, failed_clusters |-> <<>>]

CurrentIdReversed(t) == cluster_ids[t][Len(cluster_ids[t]) + 1 - idx[t]]
CurrentId(t) == cluster_ids[t][idx[t]]

Done(st) == Len(st.completed_clusters) + Len(st.failed_clusters)

AppendCompleted(st, c) ==
    [st EXCEPT !.completed_clusters = Append(@, c)]

AppendFailedOnce(st, c) ==
    IF \E i \in 1..Len(st.failed_clusters) : st.failed_clusters[i] = c
    THEN st
    ELSE [st EXCEPT !.failed_clusters = Append(@, c)]

AppendFailed(st, c) ==
    [st EXCEPT !.failed_clusters = Append(@, c)]

UpdateProgressRemaining(st, total) ==
    [st EXCEPT !.progress = Fraction(total - Done(st), total)]

UpdateProgress(st, total) ==
    [st EXCEPT !.progress = Fraction(Done(st), total)]

Completed(st) ==
    [st EXCEPT !.status = "completed", !.current_cluster = None]

TaskFailed(st) ==
    [st EXCEPT !.status = "failed"]

\* ---- control flow shared by the steps ----
LeaveIterationHolding(t, st) ==
    /\ sem' = sem
    /\ IF idx[t] < Len(cluster_ids[t])
       THEN /\ generation_tasks' = [generation_tasks EXCEPT ![t] = st]
            /\ idx' = [idx EXCEPT ![t] = @ + 1]
            /\ pc' = [pc EXCEPT ![t] = "acquire"]
       ELSE /\ generation_tasks' = [generation_tasks EXCEPT ![t] = Completed(st)]
            /\ pc' = [pc EXCEPT ![t] = "done"]
            /\ idx' = idx

\* the with-block of one iteration is left normally (or by continue): the slot
\* is released, then the loop takes its next entry or the task completes
LeaveIteration(t, st) ==
    /\ sem' = SemRelease(sem)
    /\ IF idx[t] < Len(cluster_ids[t])
       THEN /\ generation_tasks' = [generation_tasks EXCEPT ![t] = st]
            /\ idx' = [idx EXCEPT ![t] = @ + 1]
            /\ pc' = [pc EXCEPT ![t] = "acquire"]
       ELSE /\ generation_tasks' = [generation_tasks EXCEPT ![t] = Completed(st)]
            /\ pc' = [pc EXCEPT ![t] = "done"]
            /\ idx' = idx

RaiseInBlockLeak(t) ==
    /\ sem' = sem
    /\ generation_tasks' = [generation_tasks EXCEPT ![t] = TaskFailed(@)]
    /\ pc' = [pc EXCEPT ![t] = "done"]
    /\ idx' = idx
    /\ exc' = [exc EXCEPT ![t] = None]

\* an exception leaves the with-block and reaches the outer except clause
RaiseInBlock(t) ==
    /\ sem' = SemRelease(sem)
    /\ generation_tasks' = [generation_tasks EXCEPT ![t] = TaskFailed(@)]
    /\ pc' = [pc EXCEPT ![t] = "done"]
    /\ idx' = idx
    /\ exc' = [exc EXCEPT ![t] = None]

EnterHandlerUncaught(t, e) == RaiseInBlock(t)

EnterHandlerMarksFailed(t, e) ==
    /\ generation_tasks' =
           [generation_tasks EXCEPT ![t] = TaskFailed(AppendFailed(@, CurrentId(t)))]
    /\ exc' = [exc EXCEPT ![t] = e]
    /\ pc' = [pc EXCEPT ![t] = "fail_commit"]
    /\ UNCHANGED <<sem, idx>>

\* an exception inside the inner try: the per-cluster except clause records
\* the failure, adds the failed note and awaits its commit
EnterHandler(t, e) ==
    /\ generation_tasks' =
           [generation_tasks EXCEPT ![t] = AppendFailed(@, CurrentId(t))]
    /\ exc' = [exc EXCEPT ![t] = e]
    /\ pc' = [pc EXCEPT ![t] = "fail_commit"]
    /\ UNCHANGED <<sem, idx>>

\* ---- the note formatter: a text is its lines, a line is a sequence of tokens ----
GT == ">"
SP == " "
LB == "["
RB == "]"
HASH == "#"
EmptyLine == <<>>
EmptyText == <<EmptyLine>>       \* "".split('\n') is ['']

\* str.lower on a token
Lower(tok) ==
    CASE tok = "!Cornell" -> "!cornell"
      [] tok = "!SUMMARY" -> "!summary"
      [] tok = "Questions" -> "questions"
      [] OTHER -> tok
LowerLine(line) == [i \in 1..Len(line) |-> Lower(line[i])]

Doubled(name) == <<LB, LB, name, RB, RB>>
Canonical(name) == <<LB, name, RB>>

\* pat occurs in line at position i
HasAt(line, i, pat) ==
    /\ i + Len(pat) - 1 <= Len(line)
    /\ \A k \in 1..Len(pat) : line[i + k - 1] = pat[k]

\* re.search(pat, line): pat occurs somewhere in line
Contains(line, pat) == \E i \in 1..Len(line) : HasAt(line, i, pat)

\* pat in line.lower()
ContainsLower(line, pat) == Contains(LowerLine(line), pat)

\* re.sub(pat, repl, line, flags=re.IGNORECASE): one pass from the left over
\* the occurrences that do not overlap
RECURSIVE Sub(_, _, _)
Sub(line, pat, repl) ==
    IF line = <<>> THEN <<>>
    ELSE IF HasAt(LowerLine(line), 1, pat)
         THEN repl \o Sub(SubSeq(line, Len(pat) + 1, Len(line)), pat, repl)
         ELSE <<Head(line)>> \o Sub(Tail(line), pat, repl)

\* re.sub(r'^[...]*', '', line): drop the leading tokens that are in toks
RECURSIVE StripLeft(_, _)
StripLeft(line, toks) ==
    IF line # <<>> /\ Head(line) \in toks THEN StripLeft(Tail(line), toks) ELSE line

\* line.rstrip()
RECURSIVE RStrip(_)
RStrip(line) ==
    IF line # <<>> /\ line[Len(line)] = SP
    THEN RStrip(SubSeq(line, 1, Len(line) - 1))
    ELSE line

\* line.strip()
Strip(line) == RStrip(StripLeft(line, {SP}))

\* '\n'.join(lines) seen again as lines: no line at all is the empty string
Join(lines) == IF lines = <<>> THEN EmptyText ELSE lines

\* ---- step 1: callout syntax ----
FixCalloutLineKeepDoubled(line) ==
    LET c4 == Sub(line, Canonical("!cornell"), Canonical("!cornell"))
        c5 == Sub(c4, Canonical("!summary"), Canonical("!summary"))
        c6 == Sub(c5, Canonical("!ad-libitum"), Canonical("!ad-libitum"))
        c7 == Sub(c6, Canonical("!adlibitum"), Canonical("!ad-libitum"))
    IN  Sub(c7, Canonical("!ad_libitum"), Canonical("!ad-libitum"))

FixCalloutLine(line) ==
    LET c1 == Sub(line, Doubled("!cornell"), Canonical("!cornell"))
        c2 == Sub(c1, Doubled("!summary"), Canonical("!summary"))
        c3 == Sub(c2, Doubled("!ad-libitum"), Canonical("!ad-libitum"))
        c4 == Sub(c3, Canonical("!cornell"), Canonical("!cornell"))
        c5 == Sub(c4, Canonical("!summary"), Canonical("!summary"))
        c6 == Sub(c5, Canonical("!ad-libitum"), Canonical("!ad-libitum"))
        c7 == Sub(c6, Canonical("!adlibitum"), Canonical("!ad-libitum"))
    IN  Sub(c7, Canonical("!ad_libitum"), Canonical("!ad-libitum"))

fix_callout_syntax(text) == [i \in 1..Len(text) |-> FixCalloutLine(text[i])]

\* ---- step 2: cornell structure ----
QuestionsWords == {"questions"}

\* the leading run of '#' and the run of spaces after it
Hashes(content) == Len(content) - Len(StripLeft(content, {HASH}))
Spaces(content) ==
    Len(StripLeft(content, {HASH})) - Len(StripLeft(StripLeft(content, {HASH}), {SP}))
\* re.sub(r'^#+\s*', '', content)
HeadingText(content) == StripLeft(StripLeft(content, {HASH}), {SP})
StartsWithQuestionsWord(line) == line # <<>> /\ Lower(Head(line)) \in QuestionsWords

\* ^#{1,2}\s*(questions?|cues?|reference\s*points?), ignoring case
IsQuestionsHeading(content) ==
    /\ Hashes(content) \in {1, 2}
    /\ StartsWithQuestionsWord(HeadingText(content))

\* ^#{2,3}\s+(?!questions?|cues?|reference), ignoring case: with two spaces or
\* more the lookahead can be tried in front of a space
IsOtherHeading(content) ==
    /\ Hashes(content) \in {2, 3}
    /\ Spaces(content) >= 1
    /\ Spaces(content) >= 2 \/ ~StartsWithQuestionsWord(HeadingText(content))

\* ^#{2,4}\s+
IsConceptHeading(content) ==
    /\ Hashes(content) \in {2, 3, 4}
    /\ Spaces(content) >= 1

\* the opener line: '> ' + the line without its leading '>' and spaces
OpenerLine(line) ==
    IF ContainsLower(StripLeft(line, {GT, SP}), Canonical("!cornell"))
    THEN <<GT, SP>> \o StripLeft(line, {GT, SP})
    ELSE line

\* what an empty line inside the cornell section becomes
CornellBlank(in_questions_refs, after_refs) ==
    IF in_questions_refs /\ ~after_refs THEN <<<<GT, SP, GT>>>>
    ELSE IF after_refs THEN <<>>
    ELSE <<<<GT>>>>

\* the loop over the lines with its three flags
RECURSIVE CornellLines(_, _, _, _)
CornellLines(lines, in_cornell, in_questions_refs, after_refs) ==
    IF lines = <<>> THEN <<>>
    ELSE
    LET line == Head(lines)
        rest == Tail(lines)
        content == Strip(StripLeft(line, {GT, SP}))
    IN  IF ContainsLower(Strip(line), Canonical("!cornell"))
        THEN <<OpenerLine(line)>> \o CornellLines(rest, TRUE, FALSE, FALSE)
        ELSE IF ~in_cornell
        THEN <<line>> \o CornellLines(rest, FALSE, in_questions_refs, after_refs)
        ELSE IF \/ ContainsLower(Strip(line), Canonical("!summary"))
                \/ ContainsLower(Strip(line), Canonical("!ad-libitum"))
        THEN <<line>> \o CornellLines(rest, FALSE, FALSE, FALSE)
        ELSE IF content = <<>>
        THEN CornellBlank(in_questions_refs, after_refs)
                 \o CornellLines(rest, TRUE, in_questions_refs, after_refs)
        ELSE IF IsQuestionsHeading(content)
        THEN <<<<GT, SP, GT, SP, HASH, HASH, SP>> \o HeadingText(content)>>
                 \o CornellLines(rest, TRUE, TRUE, FALSE)
        ELSE IF in_questions_refs /\ IsOtherHeading(content)
        THEN <<<<GT>>, <<GT, SP, GT, SP, HASH, HASH, HASH, SP>> \o HeadingText(content)>>
                 \o CornellLines(rest, TRUE, FALSE, TRUE)
        ELSE IF IsConceptHeading(content)
        THEN <<<<GT, SP, GT, SP, HASH, HASH, HASH, SP>> \o HeadingText(content)>>
                 \o CornellLines(rest, TRUE, in_questions_refs, after_refs)
        ELSE IF in_questions_refs \/ after_refs
        THEN <<<<GT, SP, GT, SP>> \o content>>
                 \o CornellLines(rest, TRUE, in_questions_refs, after_refs)
        ELSE <<<<GT, SP>> \o content>>
                 \o CornellLines(rest, TRUE, in_questions_refs, after_refs)

fix_cornell_structure(text) == Join(CornellLines(text, FALSE, FALSE, FALSE))

\* ---- steps 3 and 4: the summary and ad-libitum sections ----
\* the loop of _fix_summary_structure and of _fix_adlibitum_structure: name
\* opens the section, the two other markers close it
RECURSIVE SingleLevelLines(_, _, _)
SingleLevelLines(lines, name, in_section) ==
    IF lines = <<>> THEN <<>>
    ELSE
    LET line == Head(lines)
        rest == Tail(lines)
        content == StripLeft(line, {GT, SP})
        closes == \E other \in {"!cornell", "!summary", "!ad-libitum"} \ {name} :
                      ContainsLower(Strip(line), Canonical(other))
        inside == in_section /\ ~closes
    IN  IF ContainsLower(Strip(line), Canonical(name))
        THEN <<<<GT, SP>> \o content>> \o SingleLevelLines(rest, name, TRUE)
        ELSE IF inside
        THEN <<IF content # <<>> THEN <<GT, SP>> \o content ELSE <<GT>>>>
                 \o SingleLevelLines(rest, name, TRUE)
        ELSE <<line>> \o SingleLevelLines(rest, name, FALSE)

fix_summary_structure_open(text) == Join(SingleLevelLines(text, "!summary", TRUE))

fix_summary_structure(text) == Join(SingleLevelLines(text, "!summary", FALSE))

fix_adlibitum_structure(text) == Join(SingleLevelLines(text, "!ad-libitum", FALSE))

\* ---- step 5: section spacing ----
\* re.sub(r'(\n>[^\n]*\n)(> \[!name\])', r'\1\n\2', text): a line that starts
\* with '>' and is not the first line, followed by a line that starts with
\* '> [!name]', gets an empty line after it; the search goes on behind the
\* marker it matched
RECURSIVE SpaceBefore(_, _, _)
SpaceBefore(lines, name, after_newline) ==
    IF Len(lines) < 2 THEN lines
    ELSE IF /\ after_newline
            /\ HasAt(lines[1], 1, <<GT>>)
            /\ HasAt(lines[2], 1, <<GT, SP>> \o Canonical(name))
         THEN <<lines[1], EmptyLine, lines[2]>>
                  \o SpaceBefore(SubSeq(lines, 3, Len(lines)), name, TRUE)
         ELSE <<lines[1]>> \o SpaceBefore(Tail(lines), name, TRUE)

fix_section_spacing(text) ==
    LET s1 == SpaceBefore(text, "!summary", FALSE)
        s2 == SpaceBefore(s1, "!ad-libitum", FALSE)
    IN  SpaceBefore(s2, "!cornell", FALSE)

\* ---- step 6: whitespace ----
\* empty lines and bare '>' lines: at most two in a row are kept
RECURSIVE CapBlank(_, _)
CapBlank(lines, blank_count) ==
    IF lines = <<>> THEN <<>>
    ELSE IF Head(lines) = <<>> \/ Head(lines) = <<GT>>
         THEN (IF blank_count + 1 <= 2 THEN <<Head(lines)>> ELSE <<>>)
                  \o CapBlank(Tail(lines), blank_count + 1)
         ELSE <<Head(lines)>> \o CapBlank(Tail(lines), 0)

cleanup_whitespace(text) ==
    Join(CapBlank([i \in 1..Len(text) |-> RStrip(text[i])], 0))

\* ---- format_note: the six steps in order ----
format_note(text) ==
    cleanup_whitespace(
        fix_section_spacing(
            fix_adlibitum_structure(
                fix_summary_structure(
                    fix_cornell_structure(
                        fix_callout_syntax(text))))))

\* ---- validate_format ----
\* re.search(pat, markdown, re.IGNORECASE)
Search(text, pat) == \E i \in 1..Len(text) : ContainsLower(text[i], pat)

IssueIf(failed, issue) == IF failed THEN <<issue>> ELSE <<>>

Issues(text) ==
    IssueIf(Search(text, Doubled("!cornell")), "Found [[!cornell]] instead of [!cornell]")
    \o IssueIf(Search(text, Doubled("!summary")), "Found [[!summary]] instead of [!summary]")
    \o IssueIf(Search(text, Doubled("!ad-libitum")),
               "Found [[!ad-libitum]] instead of [!ad-libitum]")
    \o IssueIf(~Search(text, Canonical("!cornell")), "Missing [!cornell] section")
    \o IssueIf(~Search(text, Canonical("!summary")), "Missing [!summary] section")
    \o IssueIf(~Search(text, Canonical("!ad-libitum")), "Missing [!ad-libitum] section")

validate_format_first_only(text) ==
    [ok |-> Issues(text) = <<>>,
     issues |-> IF Issues(text) = <<>> THEN <<>> ELSE <<Head(Issues(text))>>]

validate_format(text) ==
    [ok |-> Len(Issues(text)) = 0, issues |-> Issues(text)]

\* ---- generate_note ----
MinLength == 100
\* the code fence tokens: three backquote characters, with and without the
\* language tag
FenceMarkdown == "<fence>markdown"
Fence == "<fence>"
Para99 == "paragraph of 99 characters"
Para100 == "paragraph of 100 characters"

\* prompt_options is Optional[Dict]: None, or the dict generate_notes builds
NoOptions == [given |-> FALSE, use_default |-> TRUE]
Options(use_default) == [given |-> TRUE, use_default |-> use_default]

\* the chat completion call raises, or gives message.content
ClientErrors == {"RemoteError", "Timeout"}
Content(text) == [error |-> None, content |-> text]
Raises(e) == [error |-> e, content |-> EmptyText]

\* len() of a token
TokenLen(tok) ==
    CASE tok = Para100 -> 100
      [] tok = Para99 -> 99
      [] tok = FenceMarkdown -> 11
      [] tok = Fence -> 3
      [] tok \in {"!cornell", "!Cornell", "!summary", "!SUMMARY"} -> 8
      [] tok = "!ad-libitum" -> 12
      [] tok = "!adlibitum" -> 11
      [] tok \in {"Some fact", "Questions"} -> 9
      [] tok = "Concept" -> 7
      [] tok = "Intro" -> 5
      [] OTHER -> 1

RECURSIVE LineLen(_)
LineLen(line) == IF line = <<>> THEN 0 ELSE TokenLen(Head(line)) + LineLen(Tail(line))

\* len(raw_content): the characters of the lines and the newlines between them
RECURSIVE Chars(_)
Chars(text) ==
    IF Len(text) = 1 THEN LineLen(text[1])
    ELSE LineLen(Head(text)) + 1 + Chars(Tail(text))

\* not raw_content or len(raw_content) < 100
TooShortInclusive(chars) == chars <= MinLength

TooShort(chars) == chars < MinLength

\* text.strip(): the whitespace at both ends goes, newlines included
IsBlank(line) == \A i \in 1..Len(line) : line[i] = SP
RECURSIVE DropBlankHead(_)
DropBlankHead(text) ==
    IF text # <<>> /\ IsBlank(Head(text)) THEN DropBlankHead(Tail(text)) ELSE text
RECURSIVE DropBlankTail(_)
DropBlankTail(text) ==
    IF text # <<>> /\ IsBlank(text[Len(text)])
    THEN DropBlankTail(SubSeq(text, 1, Len(text) - 1))
    ELSE text
StripText(text) ==
    LET kept == DropBlankTail(DropBlankHead(text))
        first == [kept EXCEPT ![1] = StripLeft(@, {SP})]
    IN  IF kept = <<>> THEN EmptyText
        ELSE [first EXCEPT ![Len(first)] = RStrip(@)]

\* text[n:] where the text starts with the token, text[:-3] where it ends with it
DropFirstToken(text) == [text EXCEPT ![1] = Tail(@)]
DropLastToken(text) == [text EXCEPT ![Len(text)] = SubSeq(@, 1, Len(@) - 1)]
StartsWith(text, tok) == text[1] # <<>> /\ Head(text[1]) = tok
EndsWith(text, tok) ==
    text[Len(text)] # <<>> /\ text[Len(text)][Len(text[Len(text)])] = tok

clean_response(text) ==
    LET t0 == StripText(text)
        t1 == IF StartsWith(t0, FenceMarkdown) THEN DropFirstToken(t0) ELSE t0
        t2 == IF StartsWith(t1, Fence) THEN DropFirstToken(t1) ELSE t1
        t3 == IF EndsWith(t2, Fence) THEN DropLastToken(t2) ELSE t2
    IN  StripText(t3)

\* the lengths of message.content the orchestrator is run with
RawLengths == {0, 99, 100, 101}

\* use_default as generate_note reads it; use_formatter follows it
UseDefault(options) == IF options.given THEN options.use_default ELSE TRUE
UseFormatterAlways(options) == TRUE
UseFormatter(options) == UseDefault(options)

Returns(text) == [raised |-> None, content |-> text]
Raised(e) == [raised |-> e, content |-> EmptyText]

\* ---- operations ----
Init ==
    /\ max_concurrent \in GateSizes
    /\ sem = max_concurrent
    /\ generation_tasks = <<>>
    /\ cluster_ids = <<>>
    /\ rate_limit_enabled = <<>>
    /\ pc = <<>>
    /\ idx = <<>>
    /\ exc = <<>>
    /\ notes = <<>>
    /\ refused = 0
    /\ markdown = EmptyText
    /\ outputs = <<>>
    /\ report = <<>>
    /\ prompt_options = NoOptions
    /\ response = Content(EmptyText)
    /\ returned = <<>>

\* request.cluster_ids is Optional[List[str]]: absent (None) or a list
Absent == [given |-> FALSE, ids |-> <<>>]
Given(ids) == [given |-> TRUE, ids |-> ids]
Requests == {Absent} \cup {Given(ids) : ids \in SeqsUpTo(MaxEntries)}

\* the truth value Python gives request.cluster_ids: None and [] are false
Truthy(request_ids) == request_ids.given /\ request_ids.ids # <<>>

\* the list the task will walk: the request's list when it is truthy, all
\* clusters of the session otherwise
Resolve(session, request_ids) ==
    IF Truthy(request_ids) THEN request_ids.ids ELSE ClustersOf(session)

\* POST /, accepted: register a pending task and queue generate_notes_task
Submit(ids, rl) ==
    /\ ids # <<>>
    /\ generation_tasks' = Append(generation_tasks, NewStatus)
    /\ cluster_ids' = Append(cluster_ids, ids)
    /\ rate_limit_enabled' = Append(rate_limit_enabled, rl)
    /\ pc' = Append(pc, "pending")
    /\ idx' = Append(idx, 0)
    /\ exc' = Append(exc, None)
    /\ UNCHANGED <<generator_vars, formatter_vars, max_concurrent, sem, notes, refused>>

\* POST /, refused: HTTPException 400, nothing registered, nothing queued
Refuse ==
    /\ refused' = refused + 1
    /\ UNCHANGED <<generator_vars, formatter_vars, max_concurrent, sem, generation_tasks,
                   cluster_ids, rate_limit_enabled, pc, idx, exc, notes>>

\* POST / for an existing session; request_ids is request.cluster_ids
GenerateNotes(session, request_ids, rl) ==
    /\ Len(generation_tasks) + refused < MaxTasks
    /\ TotalEntries(cluster_ids) + Len(Resolve(session, request_ids)) <= MaxEntries
    /\ IF Resolve(session, request_ids) = <<>>
       THEN Refuse
       ELSE Submit(Resolve(session, request_ids), rl)

\* the coroutine starts: status processing, then awaits the documents query
Start(t) ==
    /\ pc[t] = "pending"
    /\ generation_tasks' = [generation_tasks EXCEPT ![t].status = "processing"]
    /\ pc' = [pc EXCEPT ![t] = "docs"]
    /\ UNCHANGED <<generator_vars, formatter_vars, refused, exc, max_concurrent, sem, cluster_ids, rate_limit_enabled, idx, notes>>

\* the documents query returns: the loop reaches its first entry
DocsOk(t) ==
    /\ pc[t] = "docs"
    /\ IF Len(cluster_ids[t]) > 0
       THEN /\ idx' = [idx EXCEPT ![t] = 1]
            /\ pc' = [pc EXCEPT ![t] = "acquire"]
            /\ UNCHANGED generation_tasks
       ELSE /\ generation_tasks' = [generation_tasks EXCEPT ![t] = Completed(@)]
            /\ pc' = [pc EXCEPT ![t] = "done"]
            /\ idx' = idx
    /\ UNCHANGED <<generator_vars, formatter_vars, refused, exc, max_concurrent, sem, cluster_ids, rate_limit_enabled, notes>>

DocsFailReleases(t) ==
    /\ pc[t] = "docs"
    /\ sem' = SemRelease(sem)
    /\ generation_tasks' = [generation_tasks EXCEPT ![t] = TaskFailed(@)]
    /\ pc' = [pc EXCEPT ![t] = "done"]
    /\ UNCHANGED <<generator_vars, formatter_vars, refused, exc, max_concurrent, cluster_ids, rate_limit_enabled, idx, notes>>

\* the documents query raises: outer except clause
DocsFail(t) ==
    /\ pc[t] = "docs"
    /\ generation_tasks' = [generation_tasks EXCEPT ![t] = TaskFailed(@)]
    /\ pc' = [pc EXCEPT ![t] = "done"]
    /\ UNCHANGED <<generator_vars, formatter_vars, refused, exc, max_concurrent, sem, cluster_ids, rate_limit_enabled, idx, notes>>

\* async with generation_semaphore: take a slot, set current_cluster, await
\* the cluster query
Acquire(t) ==
    /\ pc[t] = "acquire"
    /\ CanAcquire(sem)
    /\ sem' = SemAcquire(sem)
    /\ generation_tasks' = [generation_tasks EXCEPT ![t].current_cluster = CurrentId(t)]
    /\ pc' = [pc EXCEPT ![t] = "lookup"]
    /\ UNCHANGED <<generator_vars, formatter_vars, refused, exc, max_concurrent, cluster_ids, rate_limit_enabled, idx, notes>>

\* the cluster exists: await the delete of its notes and the commit
LookupFound(t) ==
    /\ pc[t] = "lookup"
    /\ CurrentId(t) \in StoredClusters
    /\ pc' = [pc EXCEPT ![t] = "delete"]
    /\ UNCHANGED <<generator_vars, formatter_vars, refused, exc, max_concurrent, sem, generation_tasks, cluster_ids,
                   rate_limit_enabled, idx, notes>>

LookupMissingRaises(t) ==
    /\ pc[t] = "lookup"
    /\ CurrentId(t) \notin StoredClusters
    /\ sem' = SemRelease(sem)
    /\ generation_tasks' =
           [generation_tasks EXCEPT ![t] = TaskFailed(AppendFailed(@, CurrentId(t)))]
    /\ pc' = [pc EXCEPT ![t] = "done"]
    /\ UNCHANGED <<generator_vars, formatter_vars, refused, idx, exc, max_concurrent, cluster_ids, rate_limit_enabled, notes>>

\* the cluster does not exist: failed_clusters.append, continue
LookupMissing(t) ==
    /\ pc[t] = "lookup"
    /\ CurrentId(t) \notin StoredClusters
    /\ LeaveIteration(t, AppendFailed(generation_tasks[t], CurrentId(t)))
    /\ UNCHANGED <<generator_vars, formatter_vars, refused, exc, max_concurrent, cluster_ids, rate_limit_enabled, notes>>

\* the cluster query raises, outside the inner try
LookupFail(t) ==
    /\ pc[t] = "lookup"
    /\ RaiseInBlock(t)
    /\ UNCHANGED <<generator_vars, formatter_vars, refused, max_concurrent, cluster_ids, rate_limit_enabled, notes>>

\* delete and commit succeed (the rows are gone for every session at the
\* commit); the source content is gathered and the generation call is made
DeleteOk(t) ==
    /\ pc[t] = "delete"
    /\ notes' = WithoutCluster(notes, CurrentId(t))
    /\ pc' = [pc EXCEPT ![t] = "generate"]
    /\ UNCHANGED <<generator_vars, formatter_vars, refused, exc, max_concurrent, sem, generation_tasks, cluster_ids,
                   rate_limit_enabled, idx>>

\* delete or its commit raises
DeleteFail(t) ==
    /\ pc[t] = "delete"
    /\ EnterHandler(t, StorageError)
    /\ UNCHANGED <<generator_vars, formatter_vars, refused, max_concurrent, cluster_ids, rate_limit_enabled, notes>>

\* generate_note returns markdown; the note is added and its commit awaited
GenOk(t) ==
    /\ pc[t] = "generate"
    /\ pc' = [pc EXCEPT ![t] = "commit"]
    /\ UNCHANGED <<generator_vars, formatter_vars, refused, exc, max_concurrent, sem, generation_tasks, cluster_ids,
                   rate_limit_enabled, idx, notes>>

GenFailRetry(t, e) ==
    /\ pc[t] = "generate"
    /\ pc' = [pc EXCEPT ![t] = "delete"]
    /\ UNCHANGED <<generator_vars, formatter_vars, refused, exc, max_concurrent, sem, generation_tasks,
                   cluster_ids, rate_limit_enabled, idx, notes>>

\* generate_note raises (remote error, timeout, response too short)
GenFail(t, e) ==
    /\ pc[t] = "generate"
    /\ EnterHandler(t, e)
    /\ UNCHANGED <<generator_vars, formatter_vars, refused, max_concurrent, cluster_ids, rate_limit_enabled, notes>>

\* the chat completion call gives content of this many characters:
\* generate_note raises ValueError when it is too short, returns otherwise
ClientReturns(t, chars) ==
    IF TooShort(chars) THEN GenFail(t, "TooShort") ELSE GenOk(t)

\* the chat completion call raises or times out: generate_note re-raises
ClientRaises(t, e) == GenFail(t, e)

\* the commit of the generated note succeeds
CommitOk(t) ==
    /\ pc[t] = "commit"
    /\ notes' = Append(notes, Note(CurrentId(t), Markdown, "generated"))
    /\ LET st == AppendCompleted(generation_tasks[t], CurrentId(t))
       IN  IF rate_limit_enabled[t]
              /\ Len(st.completed_clusters) < Len(cluster_ids[t])
           THEN /\ generation_tasks' = [generation_tasks EXCEPT ![t] = st]
                /\ pc' = [pc EXCEPT ![t] = "sleep"]
                /\ UNCHANGED <<sem, idx>>
           ELSE LeaveIteration(t, UpdateProgress(st, Len(cluster_ids[t])))
    /\ UNCHANGED <<generator_vars, formatter_vars, refused, exc, max_concurrent, cluster_ids, rate_limit_enabled>>

CommitFailAfterAppend(t) ==
    /\ pc[t] = "commit"
    /\ generation_tasks' =
           [generation_tasks EXCEPT
               ![t] = AppendFailed(AppendCompleted(@, CurrentId(t)), CurrentId(t))]
    /\ exc' = [exc EXCEPT ![t] = StorageError]
    /\ pc' = [pc EXCEPT ![t] = "fail_commit"]
    /\ UNCHANGED <<generator_vars, formatter_vars, refused, sem, idx, max_concurrent, cluster_ids, rate_limit_enabled, notes>>

\* the commit of the generated note raises
CommitFail(t) ==
    /\ pc[t] = "commit"
    /\ EnterHandler(t, StorageError)
    /\ UNCHANGED <<generator_vars, formatter_vars, refused, max_concurrent, cluster_ids, rate_limit_enabled, notes>>

\* the commit of the failed note succeeds
FailCommitOk(t) ==
    /\ pc[t] = "fail_commit"
    /\ notes' = Append(notes, Note(CurrentId(t), FailedContent(exc[t]), "failed"))
    /\ exc' = [exc EXCEPT ![t] = None]
    /\ IF rate_limit_enabled[t]
       THEN /\ pc' = [pc EXCEPT ![t] = "sleep"]
            /\ UNCHANGED <<sem, idx, generation_tasks>>
       ELSE LeaveIteration(t, UpdateProgress(generation_tasks[t], Len(cluster_ids[t])))
    /\ UNCHANGED <<generator_vars, formatter_vars, refused, max_concurrent, cluster_ids, rate_limit_enabled>>

\* the commit of the failed note raises, inside the per-cluster except clause
FailCommitFail(t) ==
    /\ pc[t] = "fail_commit"
    /\ RaiseInBlock(t)
    /\ UNCHANGED <<generator_vars, formatter_vars, refused, max_concurrent, cluster_ids, rate_limit_enabled, notes>>

\* asyncio.sleep(RATE_LIMIT_DELAY) returns; progress is updated
SleepDone(t) ==
    /\ pc[t] = "sleep"
    /\ LeaveIteration(t, UpdateProgress(generation_tasks[t], Len(cluster_ids[t])))
    /\ UNCHANGED <<generator_vars, formatter_vars, refused, exc, max_concurrent, cluster_ids, rate_limit_enabled, notes>>

\* any step of task t's coroutine
TaskStep(t) ==
    \/ Start(t)
    \/ DocsOk(t)
    \/ DocsFail(t)
    \/ Acquire(t)
    \/ LookupFound(t)
    \/ LookupMissing(t)
    \/ LookupFail(t)
    \/ DeleteOk(t)
    \/ DeleteFail(t)
    \/ \E chars \in RawLengths : ClientReturns(t, chars)
    \/ \E e \in ClientErrors : ClientRaises(t, e)
    \/ CommitOk(t)
    \/ CommitFail(t)
    \/ FailCommitOk(t)
    \/ FailCommitFail(t)
    \/ SleepDone(t)

Next ==
    \/ \E session \in Sessions, request_ids \in Requests, rl \in BOOLEAN :
           GenerateNotes(session, request_ids, rl)
    \/ \E t \in Tasks : Start(t)
    \/ \E t \in Tasks : DocsOk(t)
    \/ \E t \in Tasks : DocsFail(t)
    \/ \E t \in Tasks : Acquire(t)
    \/ \E t \in Tasks : LookupFound(t)
    \/ \E t \in Tasks : LookupMissing(t)
    \/ \E t \in Tasks : LookupFail(t)
    \/ \E t \in Tasks : DeleteOk(t)
    \/ \E t \in Tasks : DeleteFail(t)
    \/ \E t \in Tasks, chars \in RawLengths : ClientReturns(t, chars)
    \/ \E t \in Tasks, e \in ClientErrors : ClientRaises(t, e)
    \/ \E t \in Tasks : CommitOk(t)
    \/ \E t \in Tasks : CommitFail(t)
    \/ \E t \in Tasks : FailCommitOk(t)
    \/ \E t \in Tasks : FailCommitFail(t)
    \/ \E t \in Tasks : SleepDone(t)

Spec == Init /\ [][Next]_vars


\* the event loop resumes every coroutine whose await has returned
Fairness == WF_vars(\E t \in Tasks : TaskStep(t))
FairSpec == Spec /\ Fairness

\* ---- the note formatter as a machine ----
\* the lines the texts are made of
InputLines ==
    { EmptyLine,
      <<LB, LB, "!cornell", RB, RB, SP, "Intro">>,
      <<GT, SP, LB, "!Cornell", RB>>,
      <<"Some fact">>,
      <<HASH, HASH, SP, "Questions">>,
      <<HASH, HASH, HASH, SP, "Concept">>,
      <<LB, "!summary", RB>>,
      <<LB, LB, "!SUMMARY", RB, RB>>,
      <<LB, "!adlibitum", RB>>,
      <<LB, LB, "!adlibitum", RB, RB>>,
      <<LB, LB, "!ad-libitum", RB, RB>> }

Texts == UNION {[1..n -> InputLines] : n \in 1..MaxLines}

orchestrator_vars ==
    <<max_concurrent, sem, generation_tasks, cluster_ids, rate_limit_enabled,
      pc, idx, exc, notes, refused>>

\* the text the next call is made on
Current == IF outputs = <<>> THEN markdown ELSE outputs[Len(outputs)]

FormatInit ==
    /\ max_concurrent = 2
    /\ sem = max_concurrent
    /\ generation_tasks = <<>>
    /\ cluster_ids = <<>>
    /\ rate_limit_enabled = <<>>
    /\ pc = <<>>
    /\ idx = <<>>
    /\ exc = <<>>
    /\ notes = <<>>
    /\ refused = 0
    /\ markdown \in Texts
    /\ outputs = <<>>
    /\ report = <<>>
    /\ prompt_options = NoOptions
    /\ response = Content(EmptyText)
    /\ returned = <<>>

\* formatted = format_note(text)
FormatNote ==
    /\ Len(outputs) < MaxRuns
    /\ outputs' = Append(outputs, format_note(Current))
    /\ UNCHANGED <<markdown, report, generator_vars, orchestrator_vars>>

\* is_valid, issues = validate_format(text)
ValidateFormat ==
    /\ report' = <<validate_format(Current)>>
    /\ UNCHANGED <<markdown, outputs, generator_vars, orchestrator_vars>>

FormatNext ==
    \/ FormatNote
    \/ ValidateFormat

FormatSpec == FormatInit /\ [][FormatNext]_vars

\* ---- generate_note as a machine ----
RawLines ==
    { EmptyLine,
      <<FenceMarkdown>>,
      <<Fence>>,
      <<Para99>>,
      <<Para100>>,
      <<LB, LB, "!cornell", RB, RB, SP, "Intro">> }

RawTexts == UNION {[1..n -> RawLines] : n \in 1..MaxLines}

Responses == {Raises(e) : e \in ClientErrors} \cup {Content(text) : text \in RawTexts}

NoteInit ==
    /\ max_concurrent = 2
    /\ sem = max_concurrent
    /\ generation_tasks = <<>>
    /\ cluster_ids = <<>>
    /\ rate_limit_enabled = <<>>
    /\ pc = <<>>
    /\ idx = <<>>
    /\ exc = <<>>
    /\ notes = <<>>
    /\ refused = 0
    /\ markdown = EmptyText
    /\ outputs = <<>>
    /\ report = <<>>
    /\ prompt_options \in {NoOptions, Options(TRUE), Options(FALSE)}
    /\ response \in Responses
    /\ returned = <<>>

\* generate_note from the answer of the chat completion call on
GenerateNote ==
    /\ returned = <<>>
    /\ IF response.error # None
       THEN /\ returned' = <<Raised(response.error)>>
            /\ UNCHANGED formatter_vars
       ELSE IF TooShort(Chars(response.content))
       THEN /\ returned' = <<Raised("TooShort")>>
            /\ UNCHANGED formatter_vars
       ELSE LET cleaned == clean_response(response.content)
            IN  IF UseFormatter(prompt_options)
                THEN /\ markdown' = cleaned
                     /\ outputs' = Append(outputs, format_note(cleaned))
                     /\ report' = <<validate_format(format_note(cleaned))>>
                     /\ returned' = <<Returns(format_note(cleaned))>>
                ELSE /\ returned' = <<Returns(cleaned)>>
                     /\ UNCHANGED formatter_vars
    /\ UNCHANGED <<prompt_options, response, orchestrator_vars>>

NoteNext == GenerateNote

NoteSpec == NoteInit /\ [][NoteNext]_vars

\* ---- derived state ----
Status(t) == generation_tasks[t].status
Terminal(t) == Status(t) \in {"completed", "failed"}
InBlock(t) == pc[t] \in {"lookup", "delete", "generate", "commit", "fail_commit", "sleep"}
InFlight == {t \in Tasks : pc[t] = "generate"}
Elems(seq) == {seq[i] : i \in 1..Len(seq)}
NoRepeats(seq) == \A i, j \in 1..Len(seq) : seq[i] = seq[j] => i = j
InRange(p) == p.den > 0 /\ 0 <= p.num /\ p.num <= p.den

\* c is an order-preserving interleaving of a and b
RECURSIVE IsMerge(_, _, _)
IsMerge(a, b, c) ==
    IF c = <<>> THEN a = <<>> /\ b = <<>>
    ELSE \/ a # <<>> /\ Head(a) = Head(c) /\ IsMerge(Tail(a), b, Tail(c))
         \/ b # <<>> /\ Head(b) = Head(c) /\ IsMerge(a, Tail(b), Tail(c))

\* ---- C1 ----
\* C1: in every reachable state the number of generate_note calls in flight,
\* summed over all tasks, is at most the configured gate size.
C1_GateBound == Cardinality(InFlight) <= max_concurrent

\* the gate is full with calls in flight while another task waits for a slot
C1_Witness ==
    /\ Cardinality(InFlight) = max_concurrent
    /\ \E t \in Tasks : pc[t] = "acquire" /\ sem = 0

\* ---- C2 ----
\* C2: whenever a task's status is completed, the lengths of completed_clusters
\* and failed_clusters add up to the length of its cluster-id list.
C2_CompletedCountsAll ==
    \A t \in Tasks :
        Status(t) = "completed" => Done(generation_tasks[t]) = Len(cluster_ids[t])

\* a completed task whose list mixed outcomes: a cluster that was not found
\* next to a stored cluster that succeeded or failed
C2_Witness ==
    \E t \in Tasks :
        /\ Status(t) = "completed"
        /\ Len(cluster_ids[t]) >= 2
        /\ "cX" \in Elems(generation_tasks[t].failed_clusters)
        /\ "c1" \in Elems(generation_tasks[t].completed_clusters)
                      \cup Elems(generation_tasks[t].failed_clusters)

\* ---- C3 ----
\* C3 as stated: for every submitted list, no cluster id is in both
\* completed_clusters and failed_clusters, and the combined size of the two
\* never exceeds the number of requested clusters.
C3_DisjointEveryList ==
    \A t \in Tasks :
        /\ Elems(generation_tasks[t].completed_clusters)
               \cap Elems(generation_tasks[t].failed_clusters) = {}
        /\ Done(generation_tasks[t]) <= Len(cluster_ids[t])

\* C3 amended: for every submitted list without a repeated id, no cluster id is
\* in both completed_clusters and failed_clusters; for every submitted list the
\* combined size of the two never exceeds the number of requested clusters.
C3_DisjointNoRepeats ==
    \A t \in Tasks :
        /\ NoRepeats(cluster_ids[t]) =>
               Elems(generation_tasks[t].completed_clusters)
                   \cap Elems(generation_tasks[t].failed_clusters) = {}
        /\ Done(generation_tasks[t]) <= Len(cluster_ids[t])

\* a list of distinct ids with one entry in each of the two lists
C3_Witness ==
    \E t \in Tasks :
        /\ NoRepeats(cluster_ids[t])
        /\ generation_tasks[t].completed_clusters # <<>>
        /\ generation_tasks[t].failed_clusters # <<>>
        /\ Done(generation_tasks[t]) = Len(cluster_ids[t])

\* ---- C4 ----
\* C4: whenever a task's status is completed, its progress is exactly 1.0.
C4_CompletedProgressIsOne ==
    \A t \in Tasks :
        Status(t) = "completed" => IsOne(generation_tasks[t].progress)

\* ---- C5 ----
\* C5: over the lifetime of a task progress never decreases from one state to
\* the next and always lies in [0.0, 1.0].
C5_ProgressMonotone ==
    /\ [](\A t \in Tasks : InRange(generation_tasks[t].progress))
    /\ [][\A t \in Tasks :
              LessEq(generation_tasks[t].progress, generation_tasks'[t].progress)]_vars

\* progress has been raised to a value strictly between 0 and 1
C5_Witness ==
    \E t \in Tasks :
        /\ 0 < generation_tasks[t].progress.num
        /\ generation_tasks[t].progress.num < generation_tasks[t].progress.den

C7_SlotsReleased ==
    /\ sem = max_concurrent - Cardinality({t \in Tasks : InBlock(t)})
    /\ \A t \in Tasks : Terminal(t) => ~InBlock(t)
    /\ (\A t \in Tasks : Terminal(t)) => sem = max_concurrent

\* all tasks are terminal, one of them failed inside the with-block, another
\* ran through a missing cluster
C7_Witness ==
    /\ Len(generation_tasks) = 2
    /\ \A t \in Tasks : Terminal(t)
    /\ \E t \in Tasks :
           Status(t) = "failed" /\ generation_tasks[t].current_cluster # None
    /\ \E t \in Tasks :
           Status(t) = "completed" /\ "cX" \in Elems(generation_tasks[t].failed_clusters)

\* ---- C8 ----
\* C8: under fair scheduling every task that has started eventually reaches
\* completed or failed.
C8_StartedTasksTerminate ==
    \A t \in 1..MaxTasks :
        (t \in Tasks /\ Status(t) = "processing") ~> (t \in Tasks /\ Terminal(t))

\* two tasks shared a gate of one slot and both are terminal, each having
\* held the slot
C8_Witness ==
    /\ max_concurrent = 1
    /\ Len(generation_tasks) = 2
    /\ \A t \in Tasks : Terminal(t) /\ Done(generation_tasks[t]) > 0

\* ---- C9 ----
\* C9: a task is registered as pending; its status changes only along
\* pending -> processing, processing -> completed, processing -> failed; once
\* completed or failed no field of its GenerationStatus changes.
C9_StatusLifecycle ==
    [][/\ \A t \in (DOMAIN generation_tasks') \ Tasks :
              generation_tasks'[t].status = "pending"
       /\ \A t \in Tasks :
              /\ Status(t)' # Status(t) =>
                     <<Status(t), Status(t)'>> \in
                         {<<"pending", "processing">>,
                          <<"processing", "completed">>,
                          <<"processing", "failed">>}
              /\ Terminal(t) => generation_tasks'[t] = generation_tasks[t]
      ]_vars

\* one task completed and one failed while the registry kept both
C9_Witness ==
    /\ \E t \in Tasks : Status(t) = "completed"
    /\ \E t \in Tasks : Status(t) = "failed" /\ generation_tasks[t].failed_clusters # <<>>

\* ---- C10 ----
\* C10: the outcomes recorded so far are those of the first entries of the
\* input list, in list order; while an entry is dispatched (slot held, outcome
\* not yet recorded) it is the entry right after the recorded ones.
C10_InputOrder ==
    \A t \in Tasks :
        LET st == generation_tasks[t]
            n == Done(st)
        IN  /\ n <= Len(cluster_ids[t])
            /\ IsMerge(st.completed_clusters, st.failed_clusters,
                       SubSeq(cluster_ids[t], 1, n))
            /\ pc[t] \in {"lookup", "delete", "generate", "commit"} =>
                   /\ idx[t] = n + 1
                   /\ st.current_cluster = cluster_ids[t][n + 1]
            /\ pc[t] = "acquire" => idx[t] = n + 1
            /\ pc[t] \in {"fail_commit", "sleep"} => idx[t] = n

\* two different ids were recorded in failed_clusters, in list order
C10_Witness ==
    \E t \in Tasks :
        /\ Len(generation_tasks[t].failed_clusters) >= 2
        /\ generation_tasks[t].failed_clusters[1] # generation_tasks[t].failed_clusters[2]

\* ---- C11 ----
\* C11: in every reachable state at most one note is stored for each cluster.
C11_AtMostOneNote ==
    \A c \in ClusterIds :
        Cardinality({i \in 1..Len(notes) : notes[i].cluster_id = c}) <= 1

C13_MissingClusterSkipped ==
    [][\A t \in Tasks :
          /\ pc[t] \in {"delete", "generate", "commit", "fail_commit", "sleep"} =>
                 CurrentId(t) \in StoredClusters
          /\ (pc[t] = "lookup" /\ CurrentId(t) \notin StoredClusters
                  /\ pc'[t] # "lookup") =>
                 LET st == generation_tasks[t]
                     st2 == generation_tasks'[t]
                 IN  \/ /\ st2.status = "failed"
                        /\ st2.failed_clusters = st.failed_clusters
                        /\ st2.completed_clusters = st.completed_clusters
                        /\ pc'[t] = "done"
                     \/ /\ st2.failed_clusters =
                               Append(st.failed_clusters, CurrentId(t))
                        /\ st2.completed_clusters = st.completed_clusters
                        /\ notes' = notes
                        /\ exc'[t] = None
                        /\ IF idx[t] < Len(cluster_ids[t])
                           THEN /\ st2.status = "processing"
                                /\ idx'[t] = idx[t] + 1
                                /\ pc'[t] = "acquire"
                           ELSE /\ st2.status = "completed"
                                /\ pc'[t] = "done"
      ]_vars

\* a task skipped the missing cluster at the head of its list and is now in
\* the generate_note call for the next entry
C13_Witness ==
    \E t \in Tasks :
        /\ cluster_ids[t] = <<"cX", "c1">>
        /\ generation_tasks[t].failed_clusters = <<"cX">>
        /\ Status(t) = "processing"
        /\ idx[t] = 2
        /\ pc[t] = "generate"

\* ---- C14 ----
\* C14: every step in which POST / handles a request whose cluster_ids is the
\* empty list refuses it: the count of 400 answers grows and the registry and
\* the queued work stay as they were.
C14_EmptyListRefused ==
    [][(\E session \in Sessions, rl \in BOOLEAN :
            GenerateNotes(session, Given(<<>>), rl)) =>
           /\ refused' = refused + 1
           /\ generation_tasks' = generation_tasks
           /\ pc' = pc
      ]_vars

\* ---- C15 ----
\* C15: a step that ends the documents query either enters the loop at its
\* first entry or sets the status failed with the free slots, the notes, the
\* position in the list and current_cluster as they were and both lists
\* empty; a failed task that never reached an entry of its list has both
\* lists empty and no current_cluster.
C15_DocsFaultFailsTask ==
    [][\A t \in Tasks :
          /\ (pc[t] = "docs" /\ pc'[t] # "docs") =>
                 \/ /\ pc'[t] = "acquire"
                    /\ idx'[t] = 1
                    /\ Status(t)' = "processing"
                    /\ sem' = sem
                 \/ /\ pc'[t] = "done"
                    /\ Status(t)' = "failed"
                    /\ sem' = sem
                    /\ notes' = notes
                    /\ idx'[t] = 0
                    /\ generation_tasks'[t].current_cluster = None
                    /\ generation_tasks'[t].completed_clusters = <<>>
                    /\ generation_tasks'[t].failed_clusters = <<>>
          /\ (Status(t) = "failed" /\ idx[t] = 0) =>
                 /\ generation_tasks[t].current_cluster = None
                 /\ generation_tasks[t].completed_clusters = <<>>
                 /\ generation_tasks[t].failed_clusters = <<>>
                 /\ pc[t] = "done"
      ]_vars

\* a task failed at the documents query while another task holds the only
\* slot of the gate
C15_Witness ==
    /\ max_concurrent = 1
    /\ sem = 0
    /\ \E t \in Tasks :
           /\ Status(t) = "failed"
           /\ idx[t] = 0
           /\ generation_tasks[t].current_cluster = None
    /\ \E t \in Tasks : pc[t] = "generate"

\* ---- C20 ----
\* C20: a task suspended in its rate-limit delay holds no slot: the free slots
\* are the gate size minus the tasks inside the with-block that are not in
\* the delay.
C20_DelayHoldsNoSlot ==
    sem = max_concurrent
              - Cardinality({t \in Tasks : InBlock(t) /\ pc[t] # "sleep"})

\* ---- C16 ----
\* C16: format_note applied to its own output returns that output.
C16_Idempotent == Len(outputs) >= 2 => outputs[2] = outputs[1]

\* ---- C17 ----
Tokens ==
    {GT, SP, LB, RB, HASH, "!cornell", "!Cornell", "!summary", "!SUMMARY",
     "!ad-libitum", "!adlibitum", "Intro", "Some fact", "Questions", "Concept"}
IsText(text) == text \in Seq(Seq(Tokens)) /\ Len(text) >= 1
MarkerFree(text) ==
    \A i \in 1..Len(text) :
        \A name \in {"!cornell", "!summary", "!ad-libitum", "!adlibitum", "!ad_libitum"} :
            ~ContainsLower(text[i], Canonical(name))

\* C17: every call of format_note returned a text; for the empty string it
\* returned the empty string, and for a text with none of the section markers
\* it returned the text with only its whitespace cleaned up.
C17_Total ==
    /\ \A i \in 1..Len(outputs) : IsText(outputs[i])
    /\ outputs # <<>> =>
           /\ markdown = EmptyText => outputs[1] = EmptyText
           /\ MarkerFree(markdown) => outputs[1] = cleanup_whitespace(markdown)

\* format_note was called on the empty string, and again on what it returned
C17_Witness ==
    /\ markdown = EmptyText
    /\ outputs = <<EmptyText, EmptyText>>

\* ---- C18 ----
DoubledOpener == <<LB, LB, "!cornell", RB, RB, SP, "Intro">>
DepthOneOpener == <<GT, SP, LB, "!cornell", RB, SP, "Intro">>
C18_Example == <<DoubledOpener, EmptyLine, <<"Some fact">>>>
C18_Expected == <<DepthOneOpener, <<GT>>, <<GT, SP, "Some fact">>>>

\* C18: the lines "[[!cornell]] Intro", "", "Some fact" are returned as
\* "> [!cornell] Intro", ">", "> Some fact"; whatever follows it, a first line
\* "[[!cornell]] Intro" is returned as "> [!cornell] Intro"; when only plain
\* lines follow it, each of them is returned at depth 1.
C18_DoubledOpener ==
    outputs # <<>> =>
        /\ markdown = C18_Example => outputs[1] = C18_Expected
        /\ markdown[1] = DoubledOpener => outputs[1][1] = DepthOneOpener
        /\ (/\ markdown[1] = DoubledOpener
            /\ \A i \in 2..Len(markdown) : markdown[i] = <<"Some fact">>) =>
               /\ Len(outputs[1]) = Len(markdown)
               /\ \A i \in 2..Len(markdown) : outputs[1][i] = <<GT, SP, "Some fact">>

\* format_note was called on the three lines of the example
C18_Witness ==
    /\ markdown = C18_Example
    /\ outputs # <<>>
    /\ outputs[1] = C18_Expected

\* ---- C19 ----
\* the six checks on a text, in the order validate_format makes them
Checks(text) ==
    LET doubled(name) == \E i \in 1..Len(text) : ContainsLower(text[i], Doubled(name))
        present(name) == \E i \in 1..Len(text) : ContainsLower(text[i], Canonical(name))
    IN  << [failed |-> doubled("!cornell"),
            issue |-> "Found [[!cornell]] instead of [!cornell]"],
           [failed |-> doubled("!summary"),
            issue |-> "Found [[!summary]] instead of [!summary]"],
           [failed |-> doubled("!ad-libitum"),
            issue |-> "Found [[!ad-libitum]] instead of [!ad-libitum]"],
           [failed |-> ~present("!cornell"), issue |-> "Missing [!cornell] section"],
           [failed |-> ~present("!summary"), issue |-> "Missing [!summary] section"],
           [failed |-> ~present("!ad-libitum"), issue |-> "Missing [!ad-libitum] section"] >>
IsFailed(check) == check.failed

\* C19: a validate_format call leaves the text and the outputs as they were;
\* what it returns has ok true exactly when its issue list is empty, which is
\* exactly when none of the six checks failed, and the issue list holds the
\* issue of every failed check, once, in check order.
C19_ValidateFormat ==
    [][report' # report =>
           LET r == report'[1]
               checks == Checks(Current)
               failed == SelectSeq(checks, IsFailed)
           IN  /\ markdown' = markdown
               /\ outputs' = outputs
               /\ r.ok = (r.issues = <<>>)
               /\ r.ok = (\A k \in 1..6 : ~checks[k].failed)
               /\ r.issues = [k \in 1..Len(failed) |-> failed[k].issue]
      ]_vars

\* validate_format found two doubled markers and a missing one in the same text
C19_Witness ==
    /\ report # <<>>
    /\ ~report[1].ok
    /\ report[1].issues = << "Found [[!cornell]] instead of [!cornell]",
                             "Found [[!summary]] instead of [!summary]",
                             "Missing [!ad-libitum] section" >>

\* ---- C21 ----
\* C21: a step that ends the commit of a cluster's note, generated or failed,
\* without failing the task goes into the rate-limit delay exactly when rate
\* limiting is enabled for the task and the entry is not the last of the list.
C21_DelayIffNotLast ==
    [][\A t \in Tasks :
          (/\ pc[t] \in {"commit", "fail_commit"}
           /\ pc'[t] \notin {pc[t], "fail_commit"}
           /\ Status(t)' # "failed") =>
              (pc'[t] = "sleep"
                  <=> (rate_limit_enabled[t] /\ idx[t] < Len(cluster_ids[t])))
      ]_vars

\* ---- C22 ----
\* C22: whenever a task waits at the gate for an entry after the first, its
\* progress is the number of recorded outcomes over the length of the list.
C22_ProgressBeforeDispatch ==
    \A t \in Tasks :
        (pc[t] = "acquire" /\ idx[t] > 1) =>
            generation_tasks[t].progress =
                Fraction(Done(generation_tasks[t]), Len(cluster_ids[t]))

\* ---- C23 ----
\* C23: while a task sleeps in the rate-limit delay, waits at the gate for an
\* entry after the first, or is completed or failed, current_cluster is None.
C23_CurrentClusterCleared ==
    \A t \in Tasks :
        (pc[t] = "sleep" \/ (pc[t] = "acquire" /\ idx[t] > 1) \/ Terminal(t)) =>
            generation_tasks[t].current_cluster = None

\* ---- C24 ----
\* C24: the position in the list never goes back; the generate_note call is
\* entered only from the delete of the same entry, for a stored cluster, and
\* is left only to the commit of the generated note or to the except clause,
\* at the same entry; the loop comes back to the gate only with the position
\* advanced by one; an entry whose cluster is stored and whose cluster query
\* and delete succeed reaches the call.
C24_NothingRetried ==
    [][\A t \in Tasks :
          /\ idx'[t] >= idx[t]
          /\ (pc'[t] = "generate" /\ pc[t] # "generate") =>
                 /\ pc[t] = "delete"
                 /\ idx'[t] = idx[t]
                 /\ CurrentId(t) \in StoredClusters
          /\ (pc[t] = "generate" /\ pc'[t] # "generate") =>
                 /\ pc'[t] \in {"commit", "fail_commit"}
                 /\ idx'[t] = idx[t]
          /\ (pc[t] = "delete" /\ pc'[t] # "delete") =>
                 /\ pc'[t] \in {"generate", "fail_commit"}
                 /\ idx'[t] = idx[t]
          /\ (pc[t] = "lookup" /\ pc'[t] # "lookup") =>
                 \/ pc'[t] = "delete" /\ idx'[t] = idx[t]
                        /\ CurrentId(t) \in StoredClusters
                 \/ pc'[t] = "done"
                 \/ pc'[t] = "acquire" /\ CurrentId(t) \notin StoredClusters
          /\ (pc[t] \in {"commit", "fail_commit", "sleep"} /\ pc'[t] # pc[t]) =>
                 pc'[t] \in {"fail_commit", "sleep", "done", "acquire"}
          /\ (pc'[t] = "acquire" /\ pc[t] # "acquire") => idx'[t] = idx[t] + 1
      ]_vars

\* a finished task made one call for its first entry, which failed, and none
\* for its second, which names no stored cluster
C24_Witness ==
    \E t \in Tasks :
        /\ cluster_ids[t] = <<"c1", "cX">>
        /\ Status(t) = "completed"
        /\ generation_tasks[t].failed_clusters = <<"c1", "cX">>
        /\ Cardinality({i \in 1..Len(notes) : notes[i].status = "failed"}) = 1

\* ---- C25 ----
\* C25: when generate_note returns, the text it returns is format_note of the
\* cleaned answer, and format_note and validate_format each ran once on it,
\* if no prompt options were given or use_default is true; it is the cleaned
\* answer, and neither format_note nor validate_format ran, if use_default
\* is false.
C25_FormatterIffDefault ==
    (returned # <<>> /\ returned[1].raised = None) =>
        LET cleaned == clean_response(response.content)
        IN  IF ~prompt_options.given \/ prompt_options.use_default
            THEN /\ returned[1].content = format_note(cleaned)
                 /\ outputs = <<format_note(cleaned)>>
                 /\ report = <<validate_format(format_note(cleaned))>>
            ELSE /\ returned[1].content = cleaned
                 /\ outputs = <<>>
                 /\ report = <<>>

\* use_default was given as true, the answer came inside a code fence and the
\* text returned is not the cleaned answer: format_note changed it
C25_Witness ==
    /\ prompt_options = Options(TRUE)
    /\ returned # <<>>
    /\ returned[1].raised = None
    /\ response.content[1] = <<FenceMarkdown>>
    /\ returned[1].content # clean_response(response.content)
    /\ returned[1].content = outputs[1]

C26_NoDoubledMarker ==
    \A i \in 1..Len(outputs) :
        \A name \in {"!cornell", "!summary", "!ad-libitum"} :
            ~Search(outputs[i], Doubled(name))

\* ---- C27 ----
\* C27: in every text format_note returns, every line after the first that
\* opens the first, second or third section has an empty line, or a bare
\* depth-1 marker, right before it.
C27_SeparatorBeforeSection ==
    \A k \in 1..Len(outputs) :
        \A i \in 2..Len(outputs[k]) :
            (\E name \in {"!cornell", "!summary", "!ad-libitum"} :
                 HasAt(outputs[k][i], 1, <<GT, SP>> \o Canonical(name)))
                => outputs[k][i - 1] \in {EmptyLine, <<GT>>}

\* ---- C28 ----
\* C28: in every text format_note returns, no depth-2 level-3 heading comes
\* right behind a depth-2 line: a bare depth-1 separator is between a concept
\* heading and the sub-block before it.
C28_ConceptSeparated ==
    \A k \in 1..Len(outputs) :
        \A i \in 2..Len(outputs[k]) :
            HasAt(outputs[k][i], 1, <<GT, SP, GT, SP, HASH, HASH, HASH, SP>>)
                => ~HasAt(outputs[k][i - 1], 1, <<GT, SP, GT>>)

\* ---- C29 ----
QuestionsRendered(line) == HasAt(line, 1, <<GT, SP, GT, SP, HASH, HASH, SP>>)
ConceptRendered(line) == HasAt(line, 1, <<GT, SP, GT, SP, HASH, HASH, HASH, SP>>)
OpensSection(line) ==
    \E name \in {"!cornell", "!summary", "!ad-libitum"} : Contains(line, Canonical(name))
Landmark(line) == QuestionsRendered(line) \/ ConceptRendered(line) \/ OpensSection(line)

\* the bare marker at line i of the text is the separator in front of a
\* concept heading
IsSeparator(text, i) ==
    text[i] = <<GT>> /\ i < Len(text) /\ ConceptRendered(text[i + 1])

\* the bare marker at line i is the one its region asks for, the region being
\* given by the last opener or sub-block heading above it
BareMarkerFits(text, i) ==
    LET above == {j \in 1..(i - 1) : Landmark(text[j])}
        last == CHOOSE j \in above : \A k \in above : k <= j
    IN  above # {} =>
            IF ConceptRendered(text[last]) THEN IsSeparator(text, i)
            ELSE IF QuestionsRendered(text[last])
            THEN text[i] = <<GT, SP, GT>> \/ IsSeparator(text, i)
            ELSE text[i] = <<GT>>

\* C29: in every text format_note returns, a bare marker below a Questions
\* heading is the two-level one, no bare marker is below a concept heading
\* other than the separator in front of the next concept heading, and a bare
\* marker anywhere else inside a section is the depth-1 one.
C29_BlankByRegion ==
    \A k \in 1..Len(outputs) :
        \A i \in 1..Len(outputs[k]) :
            outputs[k][i] \in {<<GT>>, <<GT, SP, GT>>} => BareMarkerFits(outputs[k], i)

====
